---- MODULE Spec2Model ----
(***************************************************************************)
(* State-machine model of the CodeGenesis AI test generator:               *)
(*   - the AiUnitTestGenerator component (generation and analysis          *)
(*     handlers, settings, notifications, copy/download),                  *)
(*   - the Gemini service (generateUnitTestsStream, analyzeCodeWithGemini),*)
(*   - the text transform cleanCodeForDownload.                            *)
(* Text that is inspected character by character (source code, fragments,  *)
(* generated tests) is a sequence of one-character strings; fixed messages *)
(* and enum values are plain strings.                                      *)
(***************************************************************************)
EXTENDS Integers, Sequences, FiniteSets, TLC

VARIABLES
    code,                      \* source text in the editor
    tests,                     \* display buffer
    isLoading,                 \* generation loading flag
    error,                     \* inline error panel text
    generationProgress,        \* progress percentage
    generatedArtifactsHistory, \* artifacts, most recent first
    notifications,             \* toasts currently shown
    codeAnalysisReport,        \* analysis report or Null
    isAnalysisLoading,         \* analysis loading flag
    selectedAiModel,
    selectedTestFramework,
    selectedCodeLanguage,
    generationStrategy,
    includeMocks,
    generateEdgeCases,
    customPrompt,
    ops,                       \* one record per handleGenerate invocation
    analysisPc,                \* position of the analyzeCode invocation
    analysisRuns,              \* analyzeCode invocations so far
    analysisResponse,          \* what the last awaited generateContent produced
    edits,                     \* editor and settings changes so far
    calls,                     \* direct invocations of the two handlers so far
    now,                       \* the millisecond clock read by Date.now()
    clipboard,                 \* last text written to the clipboard
    downloaded                 \* last file content handed to downloadFile

uiVars == <<tests, isLoading, error, generationProgress>>
cfgVars == <<selectedAiModel, selectedTestFramework, selectedCodeLanguage,
             generationStrategy, includeMocks, generateEdgeCases, customPrompt>>
analysisVars == <<codeAnalysisReport, isAnalysisLoading, analysisPc, analysisRuns,
                  analysisResponse>>
exportVars == <<clipboard, downloaded>>
vars == <<code, uiVars, generatedArtifactsHistory, notifications, analysisVars,
          cfgVars, ops, now, exportVars, edits, calls>>

----------------------------------------------------------------------------
(* Bounds of the model *)

\* handleGenerate invocations per behaviour
MaxOps == 2
\* analyzeCode invocations per behaviour
MaxAnalyses == 2
\* editor and settings changes per behaviour
MaxEdits == 1
\* milliseconds the clock advances per behaviour
MaxClock == 1
\* direct invocations of handleGenerate and analyzeCode per behaviour
MaxCalls == 3
\* length of the texts given to cleanCodeForDownload
MaxTextLen == 5
\* length of the text between the fences of a fenced answer
MaxBodyLen == 2

(* Program constants *)
ProgressStep == 5
ProgressCap == 95
ProgressDone == 100

----------------------------------------------------------------------------
(* Characters and strings *)

\* the backtick character
BT == "BT"
NL == "\n"
SP == " "
Chars == {BT, "a", NL, SP}

IsSpace(c) == c \in {SP, NL}
IsWord(c) == c \in {"a", "b"}

Min(a, b) == IF a < b THEN a ELSE b

RECURSIVE TrimStart(_)
TrimStart(s) ==
    IF s # <<>> /\ IsSpace(Head(s)) THEN TrimStart(Tail(s)) ELSE s

RECURSIVE TrimEnd(_)
TrimEnd(s) ==
    IF s # <<>> /\ IsSpace(s[Len(s)]) THEN TrimEnd(SubSeq(s, 1, Len(s) - 1)) ELSE s

\* String.prototype.trim
Trim(s) == TrimEnd(TrimStart(s))

Drop(s, n) == SubSeq(s, n + 1, Len(s))

StartsWithFence(s) == Len(s) >= 3 /\ s[1] = BT /\ s[2] = BT /\ s[3] = BT
EndsWithFence(s) ==
    Len(s) >= 3 /\ s[Len(s)] = BT /\ s[Len(s) - 1] = BT /\ s[Len(s) - 2] = BT

\* length of the longest prefix of word characters
RECURSIVE WordRun(_)
WordRun(s) == IF s # <<>> /\ IsWord(Head(s)) THEN 1 + WordRun(Tail(s)) ELSE 0

\* code.replace(/^BT BT BT(?:\w+\n)?/, ''), BT the backtick
StripOpeningFence(s) ==
    IF ~StartsWithFence(s) THEN s
    ELSE LET rest == Drop(s, 3)
             w == WordRun(rest)
         IN IF w >= 1 /\ Len(rest) > w /\ rest[w + 1] = NL
            THEN Drop(rest, w + 1)
            ELSE rest

\* code.replace(/BT BT BT$/, '')
StripClosingFence(s) ==
    IF EndsWithFence(s) THEN SubSeq(s, 1, Len(s) - 3) ELSE s

cleanCodeForDownload(s) == Trim(StripClosingFence(StripOpeningFence(s)))

----------------------------------------------------------------------------
(* Enumerations of types.ts; all but AiModelProvider are restricted to the  *)
(* values the model selects                                                *)

AiModelProvider == {"gemini-flash", "gemini-pro", "gpt-4-turbo", "claude-3-opus"}
TestFramework == {"jest", "vitest"}
AssertionLibrary == {"expect", "chai"}
CodeLanguage == {"typescript", "python"}
GenerationStrategy == {"hybrid", "behavioral"}
CustomPrompts == {"", "focus on security"}

\* editor contents: empty, whitespace only, and two non-blank sources
DefaultCode == <<"a">>
Codes == {<<>>, <<SP>>, DefaultCode, <<SP, "b">>}

\* selections that no control of the component changes
selectedAssertionLibrary == "expect"
selectedTestTypes == <<"unit", "integration">>

\* the options object built by handleGenerate from the current selections
BuildOptions ==
    [targetFramework |-> selectedTestFramework,
     assertionLibrary |-> selectedAssertionLibrary,
     codeLanguage |-> selectedCodeLanguage,
     testTypes |-> selectedTestTypes,
     includeMocks |-> includeMocks,
     includeStubs |-> FALSE,
     generateEdgeCases |-> generateEdgeCases,
     generateNegativeTests |-> generateEdgeCases,
     aiModelConfig |-> [provider |-> selectedAiModel,
                        modelName |-> selectedAiModel,
                        temperature |-> "0.7",
                        topP |-> "0.95",
                        maxTokens |-> 4096],
     generationStrategy |-> generationStrategy,
     customPromptInstructions |-> customPrompt]

----------------------------------------------------------------------------
(* generateUnitTestsStream up to its request: model id and prompt *)

\* the characters of a provider identifier
Spelling(provider) ==
    CASE provider = "gemini-flash" ->
           <<"g", "e", "m", "i", "n", "i", "-", "f", "l", "a", "s", "h">>
      [] provider = "gemini-pro" ->
           <<"g", "e", "m", "i", "n", "i", "-", "p", "r", "o">>
      [] provider = "gpt-4-turbo" ->
           <<"g", "p", "t", "-", "4", "-", "t", "u", "r", "b", "o">>
      [] provider = "claude-3-opus" ->
           <<"c", "l", "a", "u", "d", "e", "-", "3", "-", "o", "p", "u", "s">>

\* String.prototype.includes
Includes(s, sub) ==
    \E k \in 0 .. Len(s) - Len(sub) : SubSeq(s, k + 1, k + Len(sub)) = sub

FlashModel == "gemini-3-flash-preview"
ProModel == "gemini-3-pro-preview"

\* variant: the test looks for the letter p alone
ResolveModelByLetter(provider) ==
    IF Includes(Spelling(provider), <<"p">>) THEN ProModel ELSE FlashModel

\* let modelName = flash; if (provider.includes('pro')) modelName = pro
ResolveModel(provider) ==
    IF Includes(Spelling(provider), <<"p", "r", "o">>) THEN ProModel ELSE FlashModel

\* variant: the instructions are interpolated without the fallback
CustomInstructionsVerbatim(options) ==
    IF "customPromptInstructions" \in DOMAIN options
    THEN options.customPromptInstructions
    ELSE "undefined"

\* options.customPromptInstructions || 'None': the field is optional, and an
\* absent field or an empty string gives the placeholder
CustomInstructions(options) ==
    IF "customPromptInstructions" \in DOMAIN options
         /\ options.customPromptInstructions # ""
    THEN options.customPromptInstructions
    ELSE "None"

\* the system prompt: the pieces of the template literal, in order
SystemPrompt(options) ==
    <<"You are CodeGenesis AI, an expert Senior QA Engineer and Software Architect.\n    Your task is to generate comprehensive, production-ready unit tests.\n    \n    Constraints:\n    - Target Framework: ",
      options.targetFramework,
      "\n    - Assertion Library: ",
      options.assertionLibrary,
      "\n    - Language: ",
      options.codeLanguage,
      "\n    - Strategy: ",
      options.generationStrategy,
      "\n    \n    Requirements:\n    - ",
      IF options.includeMocks
      THEN "Include mocks for external dependencies."
      ELSE "Assume real dependencies where safe.",
      "\n    - ",
      IF options.generateEdgeCases
      THEN "Cover edge cases and boundary conditions rigorously."
      ELSE "Focus on happy paths.",
      "\n    - Follow clean code principles (DRY, SOLID).\n    - Output ONLY the code for the test file. Do not include markdown formatting or explanations outside the code block if possible, but standard markdown code blocks are acceptable.\n    \n    Custom Instructions: ",
      CustomInstructions(options),
      "\n    ">>

\* the user prompt: a fixed sentence, then the source, character by character
UserPrompt(source) == <<"Generate unit tests for the following code:\n\n">> \o source

\* variant: the prompt also says whether negative tests are wanted
BuildPromptWithNegativeTests(source, options) ==
    SystemPrompt(options)
        \o <<IF options.generateNegativeTests
              THEN "Include negative tests."
              ELSE "Skip negative tests.">>
        \o <<"\n\n">> \o UserPrompt(source)

\* the text of the one part sent: systemPrompt + "\n\n" + userPrompt
BuildPrompt(source, options) ==
    SystemPrompt(options) \o <<"\n\n">> \o UserPrompt(source)

\* the call up to the await of generateContentStream: the locals of the
\* generator together with the locals of its consumer
StartRequest(source, options) ==
    [pc |-> "open",
     code |-> source,
     options |-> options,
     model |-> ResolveModel(options.aiModelConfig.provider),
     prompt |-> BuildPrompt(source, options),
     fullResponse |-> <<>>,
     stream |-> <<>>,
     pos |-> 0]

----------------------------------------------------------------------------
(* The provider's streamed response *)

\* the text of a chunk; <<>> stands for a chunk whose text is empty or absent
ChunkA == <<"a">>
ChunkB == <<"b">>
ChunkNone == <<>>

\* yield chunk.text || (the empty string)
YieldOf(chunk) == IF chunk = ChunkNone THEN <<>> ELSE chunk

\* a stream long enough to drive the progress value past its cap
LongStream == [i \in 1 .. (ProgressCap \div ProgressStep) + 1 |-> ChunkA]

Streams ==
    {<<>>, <<ChunkA>>, <<ChunkNone>>, <<ChunkA, ChunkB>>, <<ChunkB, ChunkA>>,
     <<ChunkA, ChunkNone, ChunkB>>, LongStream}

GenerationErrorMessage ==
    "Failed to generate tests via Gemini API. Please check your API key."
ClientErrorMessage == "client construction failed"
SuccessMessage == "Tests generated successfully!"
AnalysisFailedMessage == "Analysis failed. Is your API Key valid?"

----------------------------------------------------------------------------
(* Helpers of the component *)

\* showNotification: the toast list after one more toast, stamped Date.now()
showNotification(list, message, type) ==
    Append(list, [id |-> now, message |-> message, type |-> type])

\* variant: the handlers test the source without trimming it
BlankSourceOnlyEmpty(source) == source = <<>>

\* the early return of both handlers: if (!code.trim()) return
BlankSource(source) == Trim(source) = <<>>

\* variant: the button stays enabled while a generation is loading
GenerateDisabledIgnoresLoading == Trim(code) = <<>>

\* the Generate button: disabled={isLoading || !code.trim()}
GenerateDisabled == isLoading \/ Trim(code) = <<>>

\* variant: the increment is not clamped
NextProgressUncapped(prev) == prev + ProgressStep

\* variant: the increment is clamped at 100 instead of 95
NextProgressCapsAtDone(prev) == Min(prev + ProgressStep, ProgressDone)

\* setGenerationProgress(prev => Math.min(prev + 5, 95))
NextProgress(prev) == Min(prev + ProgressStep, ProgressCap)

\* variant: the chunk is put in front of the buffer
AccumulatePrepends(fullResponse, chunk) == chunk \o fullResponse

\* fullResponse += chunk
Accumulate(fullResponse, chunk) == fullResponse \o chunk

\* variant: the artifact reads the editor instead of the request's source
NewArtifactReadsEditor(op) ==
    [id |-> now,
     timestamp |-> now,
     sourceCode |-> code,
     generatedTests |-> op.fullResponse,
     optionsUsed |-> op.options,
     status |-> "generated",
     reviewStatus |-> "pending"]

\* the artifact built once the stream has been consumed
NewArtifact(op) ==
    [id |-> now,
     timestamp |-> now,
     sourceCode |-> op.code,
     generatedTests |-> op.fullResponse,
     optionsUsed |-> op.options,
     status |-> "generated",
     reviewStatus |-> "pending"]

\* variant: the artifact is put at the end of the history
RecordArtifactAppends(artifact, prev) == Append(prev, artifact)

\* setGeneratedArtifactsHistory(prev => [artifact, ...prev])
RecordArtifact(artifact, prev) == <<artifact>> \o prev

\* useState<CodeAnalysisReport | null>(null)
Null == [isNull |-> TRUE]

\* no generateContent call has settled yet
NoResponse == [kind |-> "none"]

\* an invocation whose async function has returned keeps no locals
Ended(pc) == [pc |-> pc]

InFlight(i) == i \in 1 .. Len(ops) /\ ops[i].pc \in {"open", "stream"}

----------------------------------------------------------------------------
(* Initial state: the component's useState defaults *)

Init ==
    /\ code = DefaultCode
    /\ tests = <<>>
    /\ isLoading = FALSE
    /\ error = ""
    /\ generationProgress = 0
    /\ generatedArtifactsHistory = <<>>
    /\ notifications = <<>>
    /\ codeAnalysisReport = Null
    /\ isAnalysisLoading = FALSE
    /\ selectedAiModel = "gemini-flash"
    /\ selectedTestFramework = "jest"
    /\ selectedCodeLanguage = "typescript"
    /\ generationStrategy = "hybrid"
    /\ includeMocks = TRUE
    /\ generateEdgeCases = TRUE
    /\ customPrompt = ""
    /\ ops = <<>>
    /\ analysisPc = "idle"
    /\ analysisRuns = 0
    /\ analysisResponse = NoResponse
    /\ edits = 0
    /\ calls = 0
    /\ now = 0
    /\ clipboard = <<>>
    /\ downloaded = <<>>

----------------------------------------------------------------------------
(* handleGenerate and generateUnitTestsStream, one action per segment       *)
(* between two suspension points                                            *)

\* variant: the failure path also clears the display buffer
FailGenerationClearsTests(i, message) ==
    /\ error' = message
    /\ notifications' = showNotification(notifications, message, "error")
    /\ isLoading' = FALSE
    /\ ops' = [ops EXCEPT ![i] = Ended("failed")]
    /\ tests' = <<>>
    /\ UNCHANGED <<generationProgress, generatedArtifactsHistory>>

\* variant: the failure path has no finally block
FailGenerationKeepsLoading(i, message) ==
    /\ error' = message
    /\ notifications' = showNotification(notifications, message, "error")
    /\ ops' = [ops EXCEPT ![i] = Ended("failed")]
    /\ UNCHANGED <<tests, isLoading, generationProgress, generatedArtifactsHistory>>

\* catch (err) { setError(err.message); showNotification(err.message, 'error') }
\* finally { setIsLoading(false) }
FailGeneration(i, message) ==
    /\ error' = message
    /\ notifications' = showNotification(notifications, message, "error")
    /\ isLoading' = FALSE
    /\ ops' = [ops EXCEPT ![i] = Ended("failed")]
    /\ UNCHANGED <<tests, generationProgress, generatedArtifactsHistory>>

\* variant: the handler starts without setError('')
HandleGenerateKeepsError ==
    /\ ~GenerateDisabled
    /\ ~BlankSource(code)
    /\ Len(ops) < MaxOps
    /\ isLoading' = TRUE
    /\ tests' = <<>>
    /\ generationProgress' = 0
    /\ ops' = Append(ops, StartRequest(code, BuildOptions))
    /\ UNCHANGED <<code, error, generatedArtifactsHistory, notifications,
                   analysisVars, cfgVars, now, exportVars, edits, calls>>

\* click on Generate: the handler runs up to the await of the provider request
HandleGenerate ==
    /\ ~GenerateDisabled
    /\ ~BlankSource(code)
    /\ Len(ops) < MaxOps
    /\ isLoading' = TRUE
    /\ error' = ""
    /\ tests' = <<>>
    /\ generationProgress' = 0
    /\ ops' = Append(ops, StartRequest(code, BuildOptions))
    /\ UNCHANGED <<code, generatedArtifactsHistory, notifications, analysisVars,
                   cfgVars, now, exportVars, edits, calls>>

\* click on Generate when getClient() throws: the generator's first next()
\* rejects with the constructor's own error, outside the generator's try
HandleGenerateClientThrows ==
    /\ ~GenerateDisabled
    /\ ~BlankSource(code)
    /\ Len(ops) < MaxOps
    /\ isLoading' = FALSE
    /\ error' = ClientErrorMessage
    /\ tests' = <<>>
    /\ generationProgress' = 0
    /\ notifications' = showNotification(notifications, ClientErrorMessage, "error")
    /\ ops' = Append(ops, Ended("failed"))
    /\ UNCHANGED <<code, generatedArtifactsHistory, analysisVars, cfgVars, now,
                   exportVars, edits, calls>>

\* ai.models.generateContentStream resolves with the response stream
OpenStream(i) ==
    /\ InFlight(i) /\ ops[i].pc = "open"
    /\ \E s \in Streams : ops' = [ops EXCEPT ![i].pc = "stream", ![i].stream = s]
    /\ UNCHANGED <<code, uiVars, generatedArtifactsHistory, notifications,
                   analysisVars, cfgVars, now, exportVars, edits, calls>>

\* ai.models.generateContentStream rejects
OpenFails(i) ==
    /\ InFlight(i) /\ ops[i].pc = "open"
    /\ FailGeneration(i, GenerationErrorMessage)
    /\ UNCHANGED <<code, analysisVars, cfgVars, now, exportVars, edits, calls>>

\* one chunk arrives: the generator yields it and the loop body runs
ReceiveChunk(i) ==
    /\ InFlight(i) /\ ops[i].pc = "stream"
    /\ ops[i].pos < Len(ops[i].stream)
    /\ LET chunk == YieldOf(ops[i].stream[ops[i].pos + 1])
           full == Accumulate(ops[i].fullResponse, chunk)
       IN /\ ops' = [ops EXCEPT ![i].fullResponse = full, ![i].pos = @ + 1]
          /\ tests' = full
    /\ generationProgress' = NextProgress(generationProgress)
    /\ UNCHANGED <<code, isLoading, error, generatedArtifactsHistory, notifications,
                   analysisVars, cfgVars, now, exportVars, edits, calls>>

\* the response stream throws while a chunk is awaited
StreamFails(i) ==
    /\ InFlight(i) /\ ops[i].pc = "stream"
    /\ FailGeneration(i, GenerationErrorMessage)
    /\ UNCHANGED <<code, analysisVars, cfgVars, now, exportVars, edits, calls>>

\* the stream is exhausted: progress 100, artifact, toast, audit log, finally
StreamCompletes(i) ==
    /\ InFlight(i) /\ ops[i].pc = "stream"
    /\ ops[i].pos = Len(ops[i].stream)
    /\ generationProgress' = ProgressDone
    /\ generatedArtifactsHistory' =
           RecordArtifact(NewArtifact(ops[i]), generatedArtifactsHistory)
    /\ notifications' = showNotification(notifications, SuccessMessage, "success")
    /\ isLoading' = FALSE
    /\ ops' = [ops EXCEPT ![i] = Ended("done")]
    /\ UNCHANGED <<code, tests, error, analysisVars, cfgVars, now, exportVars, edits, calls>>

----------------------------------------------------------------------------
(* Clock and toasts *)

Tick ==
    /\ now < MaxClock
    /\ now' = now + 1
    /\ UNCHANGED <<code, uiVars, generatedArtifactsHistory, notifications,
                   analysisVars, cfgVars, ops, exportVars, edits, calls>>

\* the 5 s timer of the oldest toast fires: every toast with its id goes
ExpireNotification ==
    /\ notifications # <<>>
    /\ notifications' = SelectSeq(notifications,
                                  LAMBDA n : n.id # Head(notifications).id)
    /\ UNCHANGED <<code, uiVars, generatedArtifactsHistory, analysisVars, cfgVars,
                   ops, now, exportVars, edits, calls>>

----------------------------------------------------------------------------
(* Editor and settings modal *)

Edit(changed) ==
    /\ edits < MaxEdits
    /\ edits' = edits + 1
    /\ changed
    /\ UNCHANGED <<uiVars, generatedArtifactsHistory, notifications, analysisVars,
                   ops, now, exportVars, calls>>

SetCode ==
    Edit(/\ \E c \in Codes \ {code} : code' = c
         /\ UNCHANGED cfgVars)

SetSelectedAiModel ==
    Edit(/\ \E v \in AiModelProvider \ {selectedAiModel} : selectedAiModel' = v
         /\ UNCHANGED <<code, selectedTestFramework, selectedCodeLanguage,
                        generationStrategy, includeMocks, generateEdgeCases,
                        customPrompt>>)

SetSelectedTestFramework ==
    Edit(/\ \E v \in TestFramework \ {selectedTestFramework} :
               selectedTestFramework' = v
         /\ UNCHANGED <<code, selectedAiModel, selectedCodeLanguage,
                        generationStrategy, includeMocks, generateEdgeCases,
                        customPrompt>>)

SetSelectedCodeLanguage ==
    Edit(/\ \E v \in CodeLanguage \ {selectedCodeLanguage} :
               selectedCodeLanguage' = v
         /\ UNCHANGED <<code, selectedAiModel, selectedTestFramework,
                        generationStrategy, includeMocks, generateEdgeCases,
                        customPrompt>>)

SetGenerationStrategy ==
    Edit(/\ \E v \in GenerationStrategy \ {generationStrategy} :
               generationStrategy' = v
         /\ UNCHANGED <<code, selectedAiModel, selectedTestFramework,
                        selectedCodeLanguage, includeMocks, generateEdgeCases,
                        customPrompt>>)

SetIncludeMocks ==
    Edit(/\ includeMocks' = ~includeMocks
         /\ UNCHANGED <<code, selectedAiModel, selectedTestFramework,
                        selectedCodeLanguage, generationStrategy, generateEdgeCases,
                        customPrompt>>)

SetGenerateEdgeCases ==
    Edit(/\ generateEdgeCases' = ~generateEdgeCases
         /\ UNCHANGED <<code, selectedAiModel, selectedTestFramework,
                        selectedCodeLanguage, generationStrategy, includeMocks,
                        customPrompt>>)

SetCustomPrompt ==
    Edit(/\ \E v \in CustomPrompts \ {customPrompt} : customPrompt' = v
         /\ UNCHANGED <<code, selectedAiModel, selectedTestFramework,
                        selectedCodeLanguage, generationStrategy, includeMocks,
                        generateEdgeCases>>)

----------------------------------------------------------------------------
(* The audit collaborator: logAction is called inside handleGenerate's try  *)

AuditErrorMessage == "audit log failed"

\* the stream is exhausted and auditLogService.logAction throws: everything
\* before the call has run, then the catch and the finally run
StreamCompletesAuditThrows(i) ==
    /\ InFlight(i) /\ ops[i].pc = "stream"
    /\ ops[i].pos = Len(ops[i].stream)
    /\ generationProgress' = ProgressDone
    /\ generatedArtifactsHistory' =
           RecordArtifact(NewArtifact(ops[i]), generatedArtifactsHistory)
    /\ error' = AuditErrorMessage
    /\ notifications' =
           showNotification(showNotification(notifications, SuccessMessage, "success"),
                            AuditErrorMessage, "error")
    /\ isLoading' = FALSE
    /\ ops' = [ops EXCEPT ![i] = Ended("failed")]
    /\ UNCHANGED <<code, tests, analysisVars, cfgVars, now, exportVars, edits, calls>>

----------------------------------------------------------------------------
(* analyzeCode and analyzeCodeWithGemini *)

\* variant: the fallback lists no bug entry
FallbackReportNoBug ==
    [complexityScore |-> 0,
     readabilityScore |-> 0,
     maintainabilityIndex |-> 0,
     potentialBugs |-> <<>>,
     securityVulnerabilities |-> <<>>,
     dependencies |-> <<>>,
     testCoverageEstimate |-> [lines |-> 0, branches |-> 0, functions |-> 0,
                               total |-> 0],
     suggestedImprovements |-> <<"Check API Key", "Ensure code is valid">>]

\* the report returned from the catch block of analyzeCodeWithGemini
FallbackReport ==
    [complexityScore |-> 0,
     readabilityScore |-> 0,
     maintainabilityIndex |-> 0,
     potentialBugs |-> <<[description |-> "Analysis failed", line |-> 0,
                          severity |-> "low"]>>,
     securityVulnerabilities |-> <<>>,
     dependencies |-> <<>>,
     testCoverageEstimate |-> [lines |-> 0, branches |-> 0, functions |-> 0,
                               total |-> 0],
     suggestedImprovements |-> <<"Check API Key", "Ensure code is valid">>]

\* a document the provider may answer with, as JSON.parse returns it
SampleData ==
    [complexityScore |-> 4,
     readabilityScore |-> 1,
     maintainabilityIndex |-> 80,
     potentialBugs |-> <<>>,
     securityVulnerabilities |-> <<>>,
     testCoverageEstimate |-> [lines |-> 70, branches |-> 60, functions |-> 90,
                               total |-> 75],
     suggestedImprovements |-> <<"Add types">>]

\* what the awaited generateContent call can produce
ProviderResponses ==
    {[kind |-> "json", data |-> SampleData],
     [kind |-> "network-error"],
     [kind |-> "empty-text"],
     [kind |-> "malformed-json"]}

\* { ...data, dependencies: [], externalReportUrls: [] }
AugmentReport(data) ==
    [f \in DOMAIN data \cup {"dependencies", "externalReportUrls"} |->
        IF f \in {"dependencies", "externalReportUrls"} THEN <<>> ELSE data[f]]

\* the value analyzeCodeWithGemini resolves with, once the client exists
analyzeCodeWithGemini(response) ==
    IF response.kind = "json" THEN AugmentReport(response.data) ELSE FallbackReport

\* the Run Analysis button: rendered while there is no report,
\* disabled={isAnalysisLoading || !code.trim()}
AnalyzeDisabled ==
    codeAnalysisReport # Null \/ isAnalysisLoading \/ Trim(code) = <<>>

\* click on Run Analysis: the handler runs up to the await of generateContent
AnalyzeCode ==
    /\ ~AnalyzeDisabled
    /\ ~BlankSource(code)
    /\ analysisRuns < MaxAnalyses
    /\ analysisRuns' = analysisRuns + 1
    /\ isAnalysisLoading' = TRUE
    /\ analysisPc' = "request"
    /\ UNCHANGED <<code, uiVars, generatedArtifactsHistory, notifications,
                   codeAnalysisReport, analysisResponse, cfgVars, ops, now,
                   exportVars, edits, calls>>

\* click on Run Analysis when getClient() throws: the call is outside the
\* try of analyzeCodeWithGemini, so analyzeCode's catch and finally run
AnalyzeCodeClientThrows ==
    /\ ~AnalyzeDisabled
    /\ ~BlankSource(code)
    /\ analysisRuns < MaxAnalyses
    /\ analysisRuns' = analysisRuns + 1
    /\ notifications' = showNotification(notifications, AnalysisFailedMessage, "error")
    /\ isAnalysisLoading' = FALSE
    /\ UNCHANGED <<code, uiVars, generatedArtifactsHistory, codeAnalysisReport,
                   analysisPc, analysisResponse, cfgVars, ops, now, exportVars,
                   edits, calls>>

\* the awaited provider call settles and analyzeCode continues to its end
AnalysisResponds ==
    /\ analysisPc = "request"
    /\ \E r \in ProviderResponses :
           /\ analysisResponse' = r
           /\ codeAnalysisReport' = analyzeCodeWithGemini(r)
    /\ isAnalysisLoading' = FALSE
    /\ analysisPc' = "idle"
    /\ UNCHANGED <<code, uiVars, generatedArtifactsHistory, notifications,
                   analysisRuns, cfgVars, ops, now, exportVars, edits, calls>>

\* click on Clear Report
ClearReport ==
    /\ codeAnalysisReport # Null
    /\ codeAnalysisReport' = Null
    /\ UNCHANGED <<code, uiVars, generatedArtifactsHistory, notifications,
                   isAnalysisLoading, analysisPc, analysisRuns, analysisResponse,
                   cfgVars, ops, now, exportVars, edits, calls>>

----------------------------------------------------------------------------
(* Copy and Download: rendered when tests is non-empty and nothing loads *)

ExportHidden == tests = <<>> \/ isLoading

Copy ==
    /\ ~ExportHidden
    /\ clipboard' = cleanCodeForDownload(tests)
    /\ UNCHANGED <<code, uiVars, generatedArtifactsHistory, notifications,
                   analysisVars, cfgVars, ops, now, downloaded, edits, calls>>

Download ==
    /\ ~ExportHidden
    /\ downloaded' = cleanCodeForDownload(tests)
    /\ UNCHANGED <<code, uiVars, generatedArtifactsHistory, notifications,
                   analysisVars, cfgVars, ops, now, clipboard, edits, calls>>

----------------------------------------------------------------------------
(* The generation pipeline, and the specifications built on it *)

\* the segments of handleGenerate, for every invocation
NextPipeline ==
    \/ HandleGenerate
    \/ HandleGenerateClientThrows
    \/ \E i \in 1 .. MaxOps : OpenStream(i)
    \/ \E i \in 1 .. MaxOps : OpenFails(i)
    \/ \E i \in 1 .. MaxOps : ReceiveChunk(i)
    \/ \E i \in 1 .. MaxOps : StreamFails(i)
    \/ \E i \in 1 .. MaxOps : StreamCompletes(i)

\* the pipeline with the editor, the clock and the toast timers
Next ==
    \/ NextPipeline
    \/ Tick
    \/ ExpireNotification
    \/ SetCode

Spec == Init /\ [][Next]_vars

\* the pipeline with the editor and every control of the settings modal
NextEdit ==
    \/ NextPipeline
    \/ SetCode
    \/ SetSelectedAiModel
    \/ SetSelectedTestFramework
    \/ SetSelectedCodeLanguage
    \/ SetGenerationStrategy
    \/ SetIncludeMocks
    \/ SetGenerateEdgeCases
    \/ SetCustomPrompt

SpecEdit == Init /\ [][NextEdit]_vars

\* the same pipeline with an audit collaborator that can throw
NextAudit ==
    \/ Next
    \/ \E i \in 1 .. MaxOps : StreamCompletesAuditThrows(i)

SpecAudit == Init /\ [][NextAudit]_vars

\* the analysis feature with its user and its clock
NextAnalysis ==
    \/ AnalyzeCode
    \/ AnalyzeCodeClientThrows
    \/ AnalysisResponds
    \/ ClearReport
    \/ SetCode
    \/ SetSelectedCodeLanguage
    \/ Tick
    \/ ExpireNotification

SpecAnalysis == Init /\ [][NextAnalysis]_vars

\* the pipeline and the clock, with a provider that settles every request
\* and delivers or ends every stream: once a promise has settled the event
\* loop runs the continuation that awaits it
NextLive ==
    \/ NextPipeline
    \/ Tick

ProviderStep ==
    \E i \in 1 .. MaxOps :
        \/ OpenStream(i)
        \/ OpenFails(i)
        \/ ReceiveChunk(i)
        \/ StreamFails(i)
        \/ StreamCompletes(i)

SpecLive == Init /\ [][NextLive]_vars /\ WF_vars(ProviderStep)

----------------------------------------------------------------------------
(* The two handlers invoked directly, whatever their buttons make of the   *)
(* source: each handler tests the source itself before it does anything.   *)
(* On a source that is not blank the invocations are those the buttons     *)
(* allow: none while a generation, or an analysis, is loading              *)

\* handleGenerate is invoked: it returns at once on a blank source, and
\* otherwise runs up to the await of the provider request
HandleGenerateCalled ==
    /\ calls < MaxCalls
    /\ calls' = calls + 1
    /\ IF BlankSource(code)
       THEN UNCHANGED <<uiVars, ops>>
       ELSE /\ ~isLoading
            /\ Len(ops) < MaxOps
            /\ isLoading' = TRUE
            /\ error' = ""
            /\ tests' = <<>>
            /\ generationProgress' = 0
            /\ ops' = Append(ops, StartRequest(code, BuildOptions))
    /\ UNCHANGED <<code, generatedArtifactsHistory, notifications, analysisVars,
                   cfgVars, now, exportVars, edits>>

\* analyzeCode is invoked: it returns at once on a blank source, and
\* otherwise runs up to the await of generateContent
AnalyzeCodeCalled ==
    /\ calls < MaxCalls
    /\ calls' = calls + 1
    /\ IF BlankSource(code)
       THEN UNCHANGED analysisVars
       ELSE /\ ~isAnalysisLoading
            /\ analysisPc = "idle"
            /\ analysisRuns < MaxAnalyses
            /\ analysisRuns' = analysisRuns + 1
            /\ isAnalysisLoading' = TRUE
            /\ analysisPc' = "request"
            /\ UNCHANGED <<codeAnalysisReport, analysisResponse>>
    /\ UNCHANGED <<code, uiVars, generatedArtifactsHistory, notifications, cfgVars,
                   ops, now, exportVars, edits>>

NextBlank ==
    \/ HandleGenerateCalled
    \/ AnalyzeCodeCalled
    \/ \E i \in 1 .. MaxOps : OpenStream(i)
    \/ \E i \in 1 .. MaxOps : OpenFails(i)
    \/ \E i \in 1 .. MaxOps : ReceiveChunk(i)
    \/ \E i \in 1 .. MaxOps : StreamFails(i)
    \/ \E i \in 1 .. MaxOps : StreamCompletes(i)
    \/ AnalysisResponds
    \/ SetCode

SpecBlank == Init /\ [][NextBlank]_vars

----------------------------------------------------------------------------
(* The service called directly: generateUnitTestsStream on every source    *)
(* and every options object of the bounded type                            *)

OptionsWithInstructions ==
    [targetFramework : TestFramework,
     assertionLibrary : AssertionLibrary,
     codeLanguage : CodeLanguage,
     testTypes : {selectedTestTypes},
     includeMocks : BOOLEAN,
     includeStubs : {FALSE},
     generateEdgeCases : BOOLEAN,
     generateNegativeTests : BOOLEAN,
     aiModelConfig : [provider : AiModelProvider,
                      modelName : {"gemini-flash"},
                      temperature : {"0.7"},
                      topP : {"0.95"},
                      maxTokens : {4096}],
     generationStrategy : GenerationStrategy,
     customPromptInstructions : CustomPrompts]

\* customPromptInstructions?: string -- the same object without the field
WithoutInstructions(options) ==
    [f \in DOMAIN options \ {"customPromptInstructions"} |-> options[f]]

TestGenerationOptions ==
    OptionsWithInstructions
        \cup {WithoutInstructions(o) : o \in OptionsWithInstructions}

\* a caller starts consuming generateUnitTestsStream(source, options); the
\* service keeps nothing between calls, so they are explored one at a time
GenerateUnitTestsStream ==
    /\ Len(ops) < MaxOps
    /\ \A i \in 1 .. Len(ops) : ~InFlight(i)
    /\ \E source \in Codes, options \in TestGenerationOptions :
           ops' = Append(ops, StartRequest(source, options))
    /\ UNCHANGED <<code, uiVars, generatedArtifactsHistory, notifications,
                   analysisVars, cfgVars, now, exportVars, edits, calls>>

\* the generator returns at the end of the stream, or throws
GeneratorSettles(i) ==
    /\ InFlight(i)
    /\ \E outcome \in {"done", "failed"} : ops' = [ops EXCEPT ![i] = Ended(outcome)]
    /\ UNCHANGED <<code, uiVars, generatedArtifactsHistory, notifications,
                   analysisVars, cfgVars, now, exportVars, edits, calls>>

NextService ==
    \/ GenerateUnitTestsStream
    \/ \E i \in 1 .. MaxOps : GeneratorSettles(i)

SpecService == Init /\ [][NextService]_vars

----------------------------------------------------------------------------
(* The text transform on every text up to MaxTextLen: the component right  *)
(* after a generation whose stream delivered the text t in one chunk       *)

RECURSIVE TextsOfLen(_)
TextsOfLen(n) ==
    IF n = 0 THEN {<<>>}
    ELSE {<<c>> \o t : c \in Chars, t \in TextsOfLen(n - 1)}

Texts == UNION {TextsOfLen(n) : n \in 0 .. MaxTextLen}

\* the component right after a generation that produced the text t
AfterGeneration(t) ==
        /\ code = DefaultCode
        /\ tests = t
        /\ isLoading = FALSE
        /\ error = ""
        /\ generationProgress = ProgressDone
        /\ generatedArtifactsHistory =
               <<[id |-> 0, timestamp |-> 0, sourceCode |-> DefaultCode,
                  generatedTests |-> t,
                  optionsUsed |-> [targetFramework |-> "jest",
                                   assertionLibrary |-> selectedAssertionLibrary,
                                   codeLanguage |-> "typescript",
                                   testTypes |-> selectedTestTypes,
                                   includeMocks |-> TRUE,
                                   includeStubs |-> FALSE,
                                   generateEdgeCases |-> TRUE,
                                   generateNegativeTests |-> TRUE,
                                   aiModelConfig |-> [provider |-> "gemini-flash",
                                                      modelName |-> "gemini-flash",
                                                      temperature |-> "0.7",
                                                      topP |-> "0.95",
                                                      maxTokens |-> 4096],
                                   generationStrategy |-> "hybrid",
                                   customPromptInstructions |-> ""],
                  status |-> "generated", reviewStatus |-> "pending"]>>
        /\ notifications = <<[id |-> 0, message |-> SuccessMessage,
                              type |-> "success"]>>
        /\ codeAnalysisReport = Null
        /\ isAnalysisLoading = FALSE
        /\ selectedAiModel = "gemini-flash"
        /\ selectedTestFramework = "jest"
        /\ selectedCodeLanguage = "typescript"
        /\ generationStrategy = "hybrid"
        /\ includeMocks = TRUE
        /\ generateEdgeCases = TRUE
        /\ customPrompt = ""
        /\ ops = <<Ended("done")>>
        /\ analysisPc = "idle"
        /\ analysisRuns = 0
        /\ analysisResponse = NoResponse
        /\ edits = 0
        /\ calls = 0
        /\ now = 0
        /\ clipboard = <<>>
        /\ downloaded = <<>>

InitClean == \E t \in Texts : AfterGeneration(t)

NextClean ==
    \/ Copy
    \/ Download

SpecClean == InitClean /\ [][NextClean]_vars

----------------------------------------------------------------------------
(* The text transform on fenced answers: an opening fence with or without  *)
(* a language tag, a body, a closing fence, and whitespace around them     *)

Whitespace == {<<>>, <<SP>>, <<NL>>}
LanguageTags == {<<>>, <<"a">>}
Bodies == UNION {TextsOfLen(n) : n \in 0 .. MaxBodyLen}

FencedTexts ==
    {lead \o <<BT, BT, BT>> \o tag \o <<NL>> \o body \o <<BT, BT, BT>> \o trail :
        lead \in Whitespace, tag \in LanguageTags, body \in Bodies,
        trail \in Whitespace}

InitFenced == \E t \in FencedTexts : AfterGeneration(t)

SpecFenced == InitFenced /\ [][NextClean]_vars

----------------------------------------------------------------------------
(* Vocabulary of the properties *)

IsPrefix(s, t) == Len(s) <= Len(t) /\ SubSeq(t, 1, Len(s)) = s

\* the texts of a list of chunks, joined in the order of the list
RECURSIVE Concat(_)
Concat(chunks) ==
    IF chunks = <<>> THEN <<>>
    ELSE (IF Head(chunks) = ChunkNone THEN <<>> ELSE Head(chunks))
             \o Concat(Tail(chunks))

DoneCount == Cardinality({i \in 1 .. Len(ops) : ops[i].pc = "done"})

LastOp == ops[Len(ops)]

\* the chunks invocation i has received so far, in arrival order
Received(i) == SubSeq(ops[i].stream, 1, ops[i].pos)

RecentFirst ==
    \A j \in 1 .. Len(generatedArtifactsHistory) - 1 :
        generatedArtifactsHistory[j].timestamp >=
            generatedArtifactsHistory[j + 1].timestamp

\* the invocations of handleGenerate that have started and not ended
InFlightOps == {i \in 1 .. Len(ops) : InFlight(i)}

HasNotice(list, message) == \E k \in 1 .. Len(list) : list[k].message = message

\* the text sub occurs somewhere in the text s
RECURSIVE Occurs(_, _)
Occurs(sub, s) ==
    \/ IsPrefix(sub, s)
    \/ (s # <<>> /\ Occurs(sub, Tail(s)))

\* the piece is one of the pieces the prompt is made of
HasPiece(prompt, piece) == \E k \in 1 .. Len(prompt) : prompt[k] = piece

\* the options objects that differ from the given one at most in the test
\* types, includeStubs, generateNegativeTests, and the model name,
\* temperature, topP and maxTokens of the model configuration
SameButUnprompted(options) ==
    {[options EXCEPT !.testTypes = types,
                     !.includeStubs = stubs,
                     !.generateNegativeTests = negative,
                     !.aiModelConfig.modelName = name,
                     !.aiModelConfig.temperature = temperature,
                     !.aiModelConfig.topP = topP,
                     !.aiModelConfig.maxTokens = maxTokens] :
        types \in {<<"unit", "integration">>, <<"e2e">>, <<>>},
        stubs \in BOOLEAN,
        negative \in BOOLEAN,
        name \in {"gemini-flash", "gemini-pro", "my-model"},
        temperature \in {"0.7", "0.2"},
        topP \in {"0.95", "0.5"},
        maxTokens \in {4096, 1024}}

IsSuffix(s, t) == Len(s) <= Len(t) /\ SubSeq(t, Len(t) - Len(s) + 1, Len(t)) = s

----------------------------------------------------------------------------
(* C1: the history holds exactly as many artifacts as generations have     *)
(* completed successfully, most recent first; a step that completes a      *)
(* generation puts exactly one artifact in front of the history, and every *)
(* other step, a failing generation included, leaves the history as it is. *)
C1_HistoryRecordsSuccesses ==
    /\ [](Len(generatedArtifactsHistory) = DoneCount /\ RecentFirst)
    /\ [][/\ DoneCount' = DoneCount =>
               generatedArtifactsHistory' = generatedArtifactsHistory
          /\ DoneCount' # DoneCount =>
               /\ DoneCount' = DoneCount + 1
               /\ generatedArtifactsHistory' # <<>>
               /\ Tail(generatedArtifactsHistory') = generatedArtifactsHistory]_vars

\* two generations have completed at different times
C1_Witness ==
    /\ Len(generatedArtifactsHistory) = 2
    /\ generatedArtifactsHistory[1].timestamp > generatedArtifactsHistory[2].timestamp

(* C2: progress is always within 0..100; while a generation is in flight   *)
(* it is 0 before the first fragment and min(5k, 95) after the k-th, so at *)
(* most 95; once the latest generation has completed it is exactly 100.    *)
C2_ProgressFollowsFragments ==
    /\ generationProgress \in 0 .. 100
    /\ \A i \in 1 .. Len(ops) :
          InFlight(i) =>
            /\ generationProgress <= 95
            /\ ops[i].pc = "open" => generationProgress = 0
            /\ ops[i].pc = "stream" =>
                  generationProgress = Min(5 * ops[i].pos, 95)
    /\ (ops # <<>> /\ LastOp.pc = "done") => generationProgress = 100

\* the twentieth fragment has arrived and the value is held at the cap
C2_Witness ==
    \E i \in 1 .. Len(ops) :
        InFlight(i) /\ ops[i].pc = "stream" /\ ops[i].pos = 20
            /\ generationProgress = 95

(* C3: while a generation is in flight no step lowers the progress value,  *)
(* whichever step it is: a fragment, the end of the stream, a failure, a   *)
(* click on Generate, an edit of the source or a change of a setting.      *)
C3_ProgressNeverDecreasesInFlight ==
    [][(\E i \in 1 .. Len(ops) : InFlight(i)) =>
           generationProgress' >= generationProgress]_vars

\* fragments have arrived and the user has made a change meanwhile
C3_Witness ==
    \E i \in 1 .. Len(ops) :
        InFlight(i) /\ generationProgress >= 10 /\ edits > 0
            /\ (ops[i].code # code \/ ops[i].options # BuildOptions)

(* C4: whenever progress is 100 the most recently started generation has   *)
(* completed successfully, and after a generation that ended in failure    *)
(* progress is at most 95.                                                 *)
C4_ProgressDoneOnlyOnSuccess ==
    /\ generationProgress = 100 => (ops # <<>> /\ LastOp.pc = "done")
    /\ (ops # <<>> /\ LastOp.pc = "failed") => generationProgress <= 95

\* a generation failed after the progress value had reached the cap
C4_Witness == ops # <<>> /\ LastOp.pc = "failed" /\ generationProgress = 95

(* C5: while a stream is consumed the display buffer is the concatenation  *)
(* of the fragments received so far, in arrival order, and the buffer      *)
(* published for a fragment has the buffer published before it as a prefix.*)
C5_BufferIsConcatenation ==
    /\ [](\A i \in 1 .. Len(ops) :
            (InFlight(i) /\ ops[i].pc = "stream") => tests = Concat(Received(i)))
    /\ [][\A i \in 1 .. Len(ops) :
             (InFlight(i) /\ ops[i].pc = "stream" /\ ops'[i].pc = "stream"
                /\ ops'[i].pos = ops[i].pos + 1)
               => (IsPrefix(tests, tests') /\ tests' = Concat(Received(i)'))]_vars

\* two different fragments have been published in their order of arrival
C5_Witness ==
    \E i \in 1 .. Len(ops) :
        /\ InFlight(i) /\ ops[i].pc = "stream"
        /\ ops[i].stream = <<ChunkB, ChunkA>> /\ ops[i].pos = 2
        /\ tests = <<"b", "a">>

(* C6: the step that ends an analysis, whatever failed in it, leaves a     *)
(* report set and shows no toast with the text of the caller's error       *)
(* branch, "Analysis failed. Is your API Key valid?".                      *)
C6_AnalysisNeverPropagates ==
    [][((analysisPc = "request" /\ analysisPc' = "idle")
          \/ (analysisRuns' = analysisRuns + 1 /\ analysisPc' = "idle"))
         => /\ codeAnalysisReport' # Null
            /\ ~HasNotice(notifications', AnalysisFailedMessage)]_vars

(* C7: a step in which a generation fails ends that invocation for good,   *)
(* sets a non-empty error, adds one error toast carrying it, records no    *)
(* artifact and leaves in the display buffer the concatenation of the      *)
(* fragments received before the failure (the empty text when the client   *)
(* could not be constructed).                                              *)
C7_FailureKeepsPartialText ==
    [][/\ \A i \in 1 .. Len(ops) :
             (InFlight(i) /\ ops'[i].pc = "failed") =>
                /\ error' # ""
                /\ Len(notifications') = Len(notifications) + 1
                /\ notifications'[Len(notifications')].type = "error"
                /\ notifications'[Len(notifications')].message = error'
                /\ generatedArtifactsHistory' = generatedArtifactsHistory
                /\ tests' = Concat(Received(i))
       /\ (Len(ops') = Len(ops) + 1 /\ ops'[Len(ops')].pc = "failed") =>
             /\ error' # ""
             /\ Len(notifications') = Len(notifications) + 1
             /\ notifications'[Len(notifications')].type = "error"
             /\ notifications'[Len(notifications')].message = error'
             /\ generatedArtifactsHistory' = generatedArtifactsHistory
             /\ tests' = <<>>
       /\ \A i \in 1 .. Len(ops) :
             ops[i].pc \in {"failed", "done"} => ops'[i] = ops[i]]_vars

\* a generation has failed after a fragment and its text is still shown
C7_Witness ==
    /\ ops # <<>> /\ LastOp.pc = "failed"
    /\ tests = <<"a">>
    /\ error = GenerationErrorMessage
    /\ generatedArtifactsHistory = <<>>
    /\ ~isLoading

C9_ArtifactCarriesRequest ==
    [][/\ (Len(ops') = Len(ops) + 1 /\ ops'[Len(ops')].pc = "open") =>
             /\ ops'[Len(ops')].code = code
             /\ ops'[Len(ops')].options.targetFramework = selectedTestFramework
             /\ ops'[Len(ops')].options.codeLanguage = selectedCodeLanguage
             /\ ops'[Len(ops')].options.generationStrategy = generationStrategy
             /\ ops'[Len(ops')].options.includeMocks = includeMocks
             /\ ops'[Len(ops')].options.generateEdgeCases = generateEdgeCases
             /\ ops'[Len(ops')].options.aiModelConfig.provider = selectedAiModel
             /\ ops'[Len(ops')].options.customPromptInstructions = customPrompt
       /\ \A i \in 1 .. Len(ops) :
             (InFlight(i) /\ ops'[i].pc \in {"open", "stream"}) =>
                (ops'[i].code = ops[i].code /\ ops'[i].options = ops[i].options)
       /\ \A i \in 1 .. Len(ops) :
             (InFlight(i) /\ ops'[i].pc = "done") =>
                /\ generatedArtifactsHistory'[1].sourceCode = ops[i].code
                /\ generatedArtifactsHistory'[1].optionsUsed = ops[i].options
                /\ generatedArtifactsHistory'[1].generatedTests =
                      Concat(ops[i].stream)]_vars

\* an artifact of two fragments whose source is no longer the editor's
C9_Witness ==
    /\ Len(generatedArtifactsHistory) = 1
    /\ generatedArtifactsHistory[1].sourceCode # code
    /\ generatedArtifactsHistory[1].generatedTests = <<"a", "b">>

(* C10: the text written by Copy and by Download is a fixed point of the   *)
(* transform: cleaning an already cleaned text changes nothing.            *)
C10_CleanIsIdempotent ==
    /\ cleanCodeForDownload(clipboard) = clipboard
    /\ cleanCodeForDownload(downloaded) = downloaded

(* C11: a request is sent to the pro model exactly when the identifier of  *)
(* its provider contains the text pro, and to the flash model otherwise:   *)
(* gemini-pro goes to the pro model; gemini-flash, gpt-4-turbo and         *)
(* claude-3-opus go to the flash model.                                    *)
C11_ModelIdResolution ==
    \A i \in 1 .. Len(ops) :
        InFlight(i) =>
            LET provider == ops[i].options.aiModelConfig.provider
                model == ops[i].model
            IN /\ model = "gemini-3-pro-preview"
                      <=> Occurs(<<"p", "r", "o">>, Spelling(provider))
               /\ model # "gemini-3-pro-preview" => model = "gemini-3-flash-preview"
               /\ provider = "gemini-pro" => model = "gemini-3-pro-preview"
               /\ provider \in {"gemini-flash", "gpt-4-turbo", "claude-3-opus"}
                      => model = "gemini-3-flash-preview"

\* a request for claude-3-opus, which has a p and an o but not pro, is in flight
C11_Witness ==
    \E i \in 1 .. Len(ops) :
        /\ InFlight(i)
        /\ ops[i].options.aiModelConfig.provider = "claude-3-opus"
        /\ ops[i].model = "gemini-3-flash-preview"

(* C13: the prompt of a request contains the values of framework,          *)
(* assertion library, language and strategy of its options, contains the   *)
(* custom instructions when they are non-empty and the placeholder None    *)
(* when they are empty or absent, and ends with the source, verbatim.      *)
C13_PromptContents ==
    \A i \in 1 .. Len(ops) :
        InFlight(i) =>
            LET o == ops[i].options
                prompt == ops[i].prompt
                given == "customPromptInstructions" \in DOMAIN o
            IN /\ HasPiece(prompt, o.targetFramework)
               /\ HasPiece(prompt, o.assertionLibrary)
               /\ HasPiece(prompt, o.codeLanguage)
               /\ HasPiece(prompt, o.generationStrategy)
               /\ (given /\ o.customPromptInstructions # "")
                      => HasPiece(prompt, o.customPromptInstructions)
               /\ (~given \/ o.customPromptInstructions = "")
                      => HasPiece(prompt, "None")
               /\ IsSuffix(ops[i].code, prompt)

\* a request without custom instructions, for a non-empty source and chai
C13_Witness ==
    \E i \in 1 .. Len(ops) :
        /\ InFlight(i)
        /\ "customPromptInstructions" \notin DOMAIN ops[i].options
        /\ ops[i].options.assertionLibrary = "chai"
        /\ ops[i].code = <<SP, "b">>
        /\ HasPiece(ops[i].prompt, "None")

(* C12: when the provider call of an analysis throws, the report set has   *)
(* complexity, readability and maintainability 0, the four coverage        *)
(* percentages 0, exactly one potential bug (Analysis failed, line 0,      *)
(* severity low), no security vulnerabilities, no dependencies, and the    *)
(* two suggestions Check API Key and Ensure code is valid, in that order.  *)
C12_FallbackReportFields ==
    (analysisResponse.kind = "network-error" /\ analysisPc = "idle"
        /\ codeAnalysisReport # Null) =>
       /\ codeAnalysisReport.complexityScore = 0
       /\ codeAnalysisReport.readabilityScore = 0
       /\ codeAnalysisReport.maintainabilityIndex = 0
       /\ codeAnalysisReport.testCoverageEstimate.lines = 0
       /\ codeAnalysisReport.testCoverageEstimate.branches = 0
       /\ codeAnalysisReport.testCoverageEstimate.functions = 0
       /\ codeAnalysisReport.testCoverageEstimate.total = 0
       /\ Len(codeAnalysisReport.potentialBugs) = 1
       /\ codeAnalysisReport.potentialBugs[1].description = "Analysis failed"
       /\ codeAnalysisReport.potentialBugs[1].line = 0
       /\ codeAnalysisReport.potentialBugs[1].severity = "low"
       /\ codeAnalysisReport.securityVulnerabilities = <<>>
       /\ codeAnalysisReport.dependencies = <<>>
       /\ codeAnalysisReport.suggestedImprovements =
              <<"Check API Key", "Ensure code is valid">>

\* an analysis whose provider call threw has ended and its report is shown
C12_Witness ==
    /\ analysisResponse.kind = "network-error"
    /\ analysisPc = "idle"
    /\ ~isAnalysisLoading
    /\ codeAnalysisReport # Null
    /\ Len(codeAnalysisReport.potentialBugs) = 1

(* C14, as claimed: generations are not mutually exclusive, a second one   *)
(* can be triggered while a first is in flight: whenever a generation is   *)
(* in flight and the source is not blank, Generate can be clicked.         *)
C14_SecondGenerationCanStart ==
    (InFlightOps # {} /\ Trim(code) # <<>>) => ~GenerateDisabled

(* C14, amended: generations are mutually exclusive. While one is in       *)
(* flight Generate is disabled and no step starts another, so at most one  *)
(* stream is in flight, and the display buffer, the progress value and the *)
(* history change only in steps of that one invocation.                    *)
C14_GenerationsAreExclusive ==
    /\ [](Cardinality(InFlightOps) <= 1 /\ (InFlightOps # {} => GenerateDisabled))
    /\ [][\A i \in InFlightOps :
             /\ Len(ops') = Len(ops)
             /\ (tests' # tests \/ generationProgress' # generationProgress
                    \/ generatedArtifactsHistory' # generatedArtifactsHistory)
                  => ops'[i] # ops[i]]_vars

\* a second generation streams after the first one has completed
C14_Witness ==
    /\ Len(ops) = 2
    /\ ops[1].pc = "done"
    /\ InFlight(2) /\ ops[2].pc = "stream" /\ ops[2].pos >= 1
    /\ isLoading

(* C15: every step in which a generation fails, be it at the construction  *)
(* of the client, at the opening of the request or while a fragment is     *)
(* awaited, hands the caller one error with the text "Failed to generate   *)
(* tests via Gemini API. Please check your API key.", and a generation     *)
(* that has failed receives no further fragment.                           *)
C15_SingleFixedError ==
    [][/\ \A i \in 1 .. Len(ops) :
             (InFlight(i) /\ ops'[i].pc = "failed") =>
                /\ error' =
                      "Failed to generate tests via Gemini API. Please check your API key."
                /\ Len(notifications') = Len(notifications) + 1
                /\ notifications'[Len(notifications')].message = error'
       /\ (Len(ops') = Len(ops) + 1 /\ ops'[Len(ops')].pc = "failed") =>
             /\ error' =
                   "Failed to generate tests via Gemini API. Please check your API key."
             /\ Len(notifications') = Len(notifications) + 1
             /\ notifications'[Len(notifications')].message = error'
       /\ \A i \in 1 .. Len(ops) :
             ops[i].pc = "failed" => ops'[i] = ops[i]]_vars

(* C16: for a generated text that is an opening fence (three backticks, an *)
(* optional language tag, a newline), a body and a closing fence, with or  *)
(* without whitespace before the opening and after the closing fence, the  *)
(* text written by Copy and by Download neither starts nor ends with       *)
(* three backticks.                                                        *)
C16_FencesRemoved ==
    /\ ~StartsWithFence(clipboard) /\ ~EndsWithFence(clipboard)
    /\ ~StartsWithFence(downloaded) /\ ~EndsWithFence(downloaded)

(* C17: the identifiers of the artifacts in the history are pairwise       *)
(* distinct, whatever the generations did and whenever they completed, the *)
(* clock being free to show the same millisecond to two completions.       *)
C17_ArtifactIdsDistinct ==
    \A j, k \in 1 .. Len(generatedArtifactsHistory) :
        j # k => generatedArtifactsHistory[j].id # generatedArtifactsHistory[k].id

(* C18: with a provider whose stream is finite and which keeps delivering, *)
(* every generation that has set the loading flag ends with the flag       *)
(* false, on success and on failure alike; and nothing but the end or the  *)
(* failure of the stream resets the flag (no timer does), so the flag      *)
(* stays true for as long as the provider delivers nothing.                *)
C18_LoadingEventuallyEnds ==
    /\ isLoading ~> ~isLoading
    /\ [][(isLoading /\ ~isLoading') =>
             \E i \in InFlightOps : ops'[i].pc \in {"done", "failed"}]_vars

\* one generation has ended in success and a later one in failure
C18_Witness ==
    /\ Len(ops) = 2
    /\ ops[1].pc = "done" /\ ops[2].pc = "failed"
    /\ error = GenerationErrorMessage
    /\ ~isLoading

(* C19: the loading flag is true exactly when a generation has started and *)
(* not yet ended; in particular it is never false while a stream is being  *)
(* consumed.                                                               *)
C19_LoadingIffInFlight ==
    /\ isLoading <=> InFlightOps # {}
    /\ \A i \in 1 .. Len(ops) : ops[i].pc = "stream" => isLoading

\* a second generation is consuming its stream, the flag set again
C19_Witness ==
    /\ Len(ops) = 2
    /\ ops[1].pc = "failed"
    /\ ops[2].pc = "stream" /\ ops[2].pos = 2
    /\ isLoading

(* C20: a step that starts a generation leaves the error state empty, the  *)
(* display buffer empty and the progress value 0, and they stay so until   *)
(* the first fragment is consumed; the error state stays empty while the   *)
(* generation is in flight, and in the state right after it has completed  *)
(* successfully the error state is empty and the display buffer is the     *)
(* generated text of the artifact at the front of the history.             *)
C20_StartClearsState ==
    /\ [](\A i \in InFlightOps :
             /\ error = ""
             /\ (ops[i].pc = "open" \/ ops[i].pos = 0) =>
                    (tests = <<>> /\ generationProgress = 0))
    /\ [][/\ (Len(ops') = Len(ops) + 1 /\ ops'[Len(ops')].pc = "open") =>
               (error' = "" /\ tests' = <<>> /\ generationProgress' = 0)
          /\ \A i \in InFlightOps :
                ops'[i].pc = "done" =>
                   /\ error' = ""
                   /\ generatedArtifactsHistory' # <<>>
                   /\ tests' = generatedArtifactsHistory'[1].generatedTests]_vars

\* a generation has completed after an earlier one had failed
C20_Witness ==
    /\ Len(ops) = 2
    /\ ops[1].pc = "failed" /\ ops[2].pc = "done"
    /\ error = ""
    /\ Len(generatedArtifactsHistory) = 1
    /\ tests = <<"b", "a">>
    /\ tests = generatedArtifactsHistory[1].generatedTests

(* C21: an invocation of handleGenerate or of analyzeCode while the source *)
(* is empty or only whitespace issues no provider request and leaves the   *)
(* display buffer, the error state, the progress value, both loading       *)
(* flags, the history and the analysis report as they were.                *)
C21_BlankSourceIsNoOp ==
    [][(calls' = calls + 1 /\ Trim(code) = <<>>) =>
          /\ ops' = ops
          /\ analysisPc' = analysisPc /\ analysisRuns' = analysisRuns
          /\ tests' = tests
          /\ error' = error
          /\ generationProgress' = generationProgress
          /\ isLoading' = isLoading
          /\ isAnalysisLoading' = isAnalysisLoading
          /\ generatedArtifactsHistory' = generatedArtifactsHistory
          /\ codeAnalysisReport' = codeAnalysisReport]_vars

\* a handler was invoked on a whitespace-only source while a stream was
\* being consumed, and the text received so far is still shown
C21_Witness ==
    /\ code = <<SP>>
    /\ calls > Len(ops) + analysisRuns
    /\ isLoading
    /\ tests # <<>>
    /\ generationProgress > 0

(* C22: two requests for the same source whose options differ only in the *)
(* test types, includeStubs, generateNegativeTests, the model name, the    *)
(* temperature, topP or maxTokens have the same prompt: the prompt of a    *)
(* request is the prompt of every such other request.                      *)
C22_PromptIgnoresOtherOptions ==
    \A i \in 1 .. Len(ops) :
        InFlight(i) =>
            \A other \in SameButUnprompted(ops[i].options) :
                BuildPrompt(ops[i].code, other) = ops[i].prompt

\* a request with both flags set and custom instructions is in flight, and
\* the request without test types, stubs on, negative tests off, another
\* model name, temperature, topP and maxTokens has its prompt
C22_Witness ==
    \E i \in 1 .. Len(ops) :
        /\ InFlight(i)
        /\ ops[i].code = <<SP, "b">>
        /\ ops[i].options.generateNegativeTests
        /\ "customPromptInstructions" \in DOMAIN ops[i].options
        /\ ops[i].options.customPromptInstructions = "focus on security"
        /\ \E other \in SameButUnprompted(ops[i].options) :
              /\ other.testTypes = <<>>
              /\ other.includeStubs
              /\ ~other.generateNegativeTests
              /\ other.aiModelConfig.modelName = "my-model"
              /\ other.aiModelConfig.temperature = "0.2"
              /\ other.aiModelConfig.topP = "0.5"
              /\ other.aiModelConfig.maxTokens = 1024
              /\ BuildPrompt(ops[i].code, other) = ops[i].prompt

====
